---- MODULE Spec2Model ----
(***************************************************************************)
(* Employee import pipeline of lambdaImportEmployee/lambda_function.py:    *)
(* session gate, CSV parsing, heuristic extraction, AI fallback with a     *)
(* bounded retry loop, validation and delivery over the websocket.         *)
(*                                                                         *)
(* Python strings are TLA+ strings; a dict is the sequence of its items    *)
(* in insertion order, each item a triple <<key, tag, value>>.  The tag    *)
(* says what kind of Python value the item holds:                          *)
(*   "str"      a str, held in value                                       *)
(*   "none"     None (DictReader's restval for a short row)                *)
(*   "restkey"  the item DictReader stores under the key None for the      *)
(*              surplus cells of a long row (a non-empty list)             *)
(*   "num"      a JSON number returned by the completion API               *)
(***************************************************************************)
EXTENDS Integers, Sequences, FiniteSets, TLC

(***************************************************************************)
(* Bounds of the model.                                                    *)
(***************************************************************************)
MaxRecords == 2
MaxRows == 2

(***************************************************************************)
(* Program constants.                                                      *)
(***************************************************************************)
DEFAULT_ROLE == "employee"
max_retries == 3

(***************************************************************************)
(* str helpers.                                                            *)
(***************************************************************************)
Char(s, i) == SubSeq(s, i, i)

UpperLetters == "ABCDEFGHIJKLMNOPQRSTUVWXYZ"
LowerLetters == "abcdefghijklmnopqrstuvwxyz"
Digits == "0123456789"

CharsOf(alphabet) == {Char(alphabet, i) : i \in 1..Len(alphabet)}

UpperSet == CharsOf(UpperLetters)
AlphaSet == CharsOf(UpperLetters) \cup CharsOf(LowerLetters)

\* \w of the re module
WordSet == AlphaSet \cup CharsOf(Digits) \cup {"_"}

IsAlphaChar(c) == c \in AlphaSet

IsWordChar(c) == c \in WordSet

\* [\w\.-] of EMAIL_REGEX
AddrSet == WordSet \cup {".", "-"}

IsAddrChar(c) == c \in AddrSet

IsSpace(c) == c \in {" ", "\t", "\n", "\r"}

LowerMap == [c \in UpperSet |->
               Char(LowerLetters, CHOOSE i \in 1..Len(UpperLetters) : Char(UpperLetters, i) = c)]

LowerChar(c) == IF c \in UpperSet THEN LowerMap[c] ELSE c

RECURSIVE StrLower(_)
StrLower(s) == IF s = "" THEN "" ELSE LowerChar(Char(s, 1)) \o StrLower(Tail(s))

RECURSIVE LStrip(_)
LStrip(s) == IF s # "" /\ IsSpace(Char(s, 1)) THEN LStrip(Tail(s)) ELSE s

RECURSIVE RStrip(_)
RStrip(s) ==
    IF s # "" /\ IsSpace(Char(s, Len(s))) THEN RStrip(SubSeq(s, 1, Len(s) - 1)) ELSE s

StrStrip(s) == RStrip(LStrip(s))

\* sub in s
StrContains(sub, s) ==
    \E i \in 1..(Len(s) - Len(sub) + 1) : SubSeq(s, i, i + Len(sub) - 1) = sub

\* s.isalpha(): non-empty and every character alphabetic
StrIsAlpha(s) == s # "" /\ \A i \in 1..Len(s) : IsAlphaChar(Char(s, i))

\* s.split(sep) for a one-character separator
RECURSIVE SplitOn(_, _)
SplitOn(s, sep) ==
    IF \E i \in 1..Len(s) : Char(s, i) = sep
    THEN LET i == CHOOSE j \in 1..Len(s) :
                     Char(s, j) = sep /\ \A k \in 1..(j - 1) : Char(s, k) # sep
         IN  <<SubSeq(s, 1, i - 1)>> \o SplitOn(SubSeq(s, i + 1, Len(s)), sep)
    ELSE <<s>>

\* s.split(): maximal runs of non-whitespace characters
RECURSIVE StrSplit(_)
StrSplit(s) ==
    LET t == LStrip(s) IN
    IF t = "" THEN <<>>
    ELSE IF \E i \in 1..Len(t) : IsSpace(Char(t, i))
         THEN LET i == CHOOSE j \in 1..Len(t) :
                          IsSpace(Char(t, j)) /\ \A k \in 1..(j - 1) : ~IsSpace(Char(t, k))
              IN  <<SubSeq(t, 1, i - 1)>> \o StrSplit(SubSeq(t, i, Len(t)))
         ELSE <<t>>

\* s.splitlines(): lines without their terminators, no empty last line
SplitLines(s) ==
    LET parts == SplitOn(s, "\n") IN
    IF parts[Len(parts)] = "" THEN SubSeq(parts, 1, Len(parts) - 1) ELSE parts

(***************************************************************************)
(* dict helpers: items are <<key, tag, value>> in insertion order.         *)
(***************************************************************************)
HasKey(d, k) == \E i \in 1..Len(d) : d[i][1] = k /\ d[i][2] # "restkey"

\* value of d[k] for a str-valued item
Get(d, k) == d[CHOOSE i \in 1..Len(d) : d[i][1] = k /\ d[i][2] # "restkey"][3]

GetTag(d, k) == d[CHOOSE i \in 1..Len(d) : d[i][1] = k /\ d[i][2] # "restkey"][2]

\* d[k] = v : overwrite in place or append
DictSet(d, k, tag, v) ==
    IF HasKey(d, k)
    THEN [i \in 1..Len(d) |->
            IF d[i][1] = k /\ d[i][2] # "restkey" THEN <<k, tag, v>> ELSE d[i]]
    ELSE Append(d, <<k, tag, v>>)

(***************************************************************************)
(* csv.DictReader(csv_content.splitlines()) for unquoted text: the first   *)
(* non-empty line gives the fieldnames; every later non-empty line is      *)
(* zipped with them; a short row gets None for the missing fields, a long  *)
(* row gets its surplus cells as a list under the key None.                *)
(***************************************************************************)
\* csv.reader on one line: an empty line is the empty row []
CsvCells(line) == IF line = "" THEN <<>> ELSE SplitOn(line, ",")

NonEmptyRows(lines) == SelectSeq([i \in 1..Len(lines) |-> CsvCells(lines[i])],
                                 LAMBDA r : r # <<>>)

RECURSIVE ZipRow(_, _, _)
ZipRow(fieldnames, cells, d) ==
    IF fieldnames = <<>>
    THEN IF cells = <<>> THEN d ELSE Append(d, <<"", "restkey", "">>)
    ELSE IF cells = <<>>
         THEN ZipRow(Tail(fieldnames), <<>>, DictSet(d, Head(fieldnames), "none", ""))
         ELSE ZipRow(Tail(fieldnames), Tail(cells),
                     DictSet(d, Head(fieldnames), "str", Head(cells)))

DictReader(csv_content) ==
    LET rows == NonEmptyRows(SplitLines(csv_content)) IN
    IF rows = <<>> THEN <<>>
    ELSE [i \in 1..(Len(rows) - 1) |-> ZipRow(rows[1], rows[i + 1], <<>>)]

(***************************************************************************)
(* parse_with_heuristics                                                   *)
(***************************************************************************)
name_synonyms == {"firstname", "first_name", "f_name", "lastname", "last_name", "surname"}
email_synonyms == {"email", "mail", "email_address"}

\* the comprehension building row_lower calls k.lower() on the key None of a
\* long row: AttributeError
RowLowerRaises(row) == \E i \in 1..Len(row) : row[i][2] = "restkey"

\* {k.lower().strip(): v.strip() for k, v in row.items() if v}
RECURSIVE RowLower(_, _)
RowLower(row, d) ==
    IF row = <<>> THEN d
    ELSE LET it == Head(row) IN
         IF it[2] = "str" /\ it[3] # ""
         THEN RowLower(Tail(row), DictSet(d, StrStrip(StrLower(it[1])), "str", StrStrip(it[3])))
         ELSE RowLower(Tail(row), d)

\* the loop without its branch for name_synonyms
RECURSIVE NameParts_no_synonyms(_, _)
NameParts_no_synonyms(row_lower, fl) ==
    IF row_lower = <<>> THEN fl
    ELSE LET k == Head(row_lower)[1]
             v == Head(row_lower)[3]
         IN  IF StrContains("first", k) THEN NameParts_no_synonyms(Tail(row_lower), <<v, fl[2]>>)
             ELSE IF StrContains("last", k) THEN NameParts_no_synonyms(Tail(row_lower), <<fl[1], v>>)
             ELSE NameParts_no_synonyms(Tail(row_lower), fl)

\* the loop over row_lower.items() that looks for name parts; fl is
\* <<first_name, last_name>>, None being ""
RECURSIVE NameParts(_, _)
NameParts(row_lower, fl) ==
    IF row_lower = <<>> THEN fl
    ELSE LET k == Head(row_lower)[1]
             v == Head(row_lower)[3]
         IN  IF StrContains("first", k) THEN NameParts(Tail(row_lower), <<v, fl[2]>>)
             ELSE IF StrContains("last", k) THEN NameParts(Tail(row_lower), <<fl[1], v>>)
             ELSE IF k \in name_synonyms
                  THEN LET f == IF StrContains("f", k) THEN v ELSE fl[1]
                           l == IF StrContains("l", k) \/ StrContains("s", k) THEN v ELSE fl[2]
                       IN  NameParts(Tail(row_lower), <<f, l>>)
                  ELSE NameParts(Tail(row_lower), fl)

\* combined_name built without the separating space
CombinedName_unspaced(row_lower) ==
    LET fl == NameParts(row_lower, <<"", "">>)
        first_name == IF fl[1] = "" /\ fl[2] = "" /\ HasKey(row_lower, "name")
                      THEN Get(row_lower, "name") ELSE fl[1]
        last_name == fl[2]
    IN  IF first_name # "" \/ last_name # ""
        THEN StrStrip(first_name \o last_name)
        ELSE ""

\* combined_name, None being ""
CombinedName(row_lower) ==
    LET fl == NameParts(row_lower, <<"", "">>)
        first_name == IF fl[1] = "" /\ fl[2] = "" /\ HasKey(row_lower, "name")
                      THEN Get(row_lower, "name") ELSE fl[1]
        last_name == fl[2]
    IN  IF first_name # "" \/ last_name # ""
        THEN StrStrip(first_name \o " " \o last_name)
        ELSE ""

IsEmailKey(k) == k \in email_synonyms \/ StrContains("email", k)
IsPhoneKey(k) == StrContains("phone", k) \/ StrContains("mobile", k)

\* the email loop without its break: the last email key wins
EmailOf_no_break(row_lower) ==
    IF \E i \in 1..Len(row_lower) : IsEmailKey(row_lower[i][1])
    THEN row_lower[CHOOSE i \in 1..Len(row_lower) :
                       /\ IsEmailKey(row_lower[i][1])
                       /\ \A j \in (i + 1)..Len(row_lower) : ~IsEmailKey(row_lower[j][1])][3]
    ELSE ""

\* email: value of the first item whose key is an email key, None being ""
EmailOf(row_lower) ==
    IF \E i \in 1..Len(row_lower) : IsEmailKey(row_lower[i][1])
    THEN row_lower[CHOOSE i \in 1..Len(row_lower) :
                       /\ IsEmailKey(row_lower[i][1])
                       /\ \A j \in 1..(i - 1) : ~IsEmailKey(row_lower[j][1])][3]
    ELSE ""

\* phone: value of the first item whose key is a phone key, None being ""
PhoneOf(row_lower) ==
    IF \E i \in 1..Len(row_lower) : IsPhoneKey(row_lower[i][1])
    THEN row_lower[CHOOSE i \in 1..Len(row_lower) :
                       /\ IsPhoneKey(row_lower[i][1])
                       /\ \A j \in 1..(i - 1) : ~IsPhoneKey(row_lower[j][1])][3]
    ELSE ""

\* data_obj of one row
DataObj(row) ==
    LET row_lower == RowLower(row, <<>>)
        combined_name == CombinedName(row_lower)
        email == EmailOf(row_lower)
        phone == PhoneOf(row_lower)
    IN  (IF combined_name # "" THEN <<<<"name", "str", combined_name>>>> ELSE <<>>)
        \o (IF email # "" THEN <<<<"email", "str", email>>>> ELSE <<>>)
        \o (IF phone # "" THEN <<<<"phoneNumber", "str", phone>>>> ELSE <<>>)

\* the basic check with `and`: a row with a name or an email is accepted
HeuristicAccepts_either(row) == HasKey(DataObj(row), "name") \/ HasKey(DataObj(row), "email")

\* the basic check: "name" in data_obj and "email" in data_obj
HeuristicAccepts(row) == HasKey(DataObj(row), "name") /\ HasKey(DataObj(row), "email")

\* a candidate record is [kind |-> "obj", f |-> its items]
Obj(items) == [kind |-> "obj", f |-> items]

\* the loop with `email = None` hoisted out of it: a row without an email
\* column takes the email of the last row that had one
RECURSIVE HeuristicsCarryingEmail(_, _)
HeuristicsCarryingEmail(rows, carried) ==
    IF rows = <<>> THEN <<<<>>, <<>>>>
    ELSE LET row == Head(rows)
             row_lower == RowLower(row, <<>>)
             combined_name == CombinedName(row_lower)
             email == IF \E i \in 1..Len(row_lower) : IsEmailKey(row_lower[i][1])
                      THEN EmailOf(row_lower) ELSE carried
             phone == PhoneOf(row_lower)
             data_obj ==
                 (IF combined_name # "" THEN <<<<"name", "str", combined_name>>>> ELSE <<>>)
                 \o (IF email # "" THEN <<<<"email", "str", email>>>> ELSE <<>>)
                 \o (IF phone # "" THEN <<<<"phoneNumber", "str", phone>>>> ELSE <<>>)
             rest == HeuristicsCarryingEmail(Tail(rows), email)
         IN  IF combined_name # "" /\ email # ""
             THEN <<<<Obj(data_obj)>> \o rest[1], rest[2]>>
             ELSE <<rest[1], <<row>> \o rest[2]>>

parse_with_heuristics_carried_email(parsed_rows) == HeuristicsCarryingEmail(parsed_rows, "")

\* the basic check without its else: every row is also appended to failed_rows
RECURSIVE parse_with_heuristics_no_else(_)
parse_with_heuristics_no_else(parsed_rows) ==
    IF parsed_rows = <<>> THEN <<<<>>, <<>>>>
    ELSE LET row == Head(parsed_rows)
             rest == parse_with_heuristics_no_else(Tail(parsed_rows))
         IN  IF HeuristicAccepts(row)
             THEN <<<<Obj(DataObj(row))>> \o rest[1], <<row>> \o rest[2]>>
             ELSE <<rest[1], <<row>> \o rest[2]>>

\* <<structured_rows, failed_rows>>
RECURSIVE parse_with_heuristics(_)
parse_with_heuristics(parsed_rows) ==
    IF parsed_rows = <<>> THEN <<<<>>, <<>>>>
    ELSE LET row == Head(parsed_rows)
             rest == parse_with_heuristics(Tail(parsed_rows))
         IN  IF HeuristicAccepts(row)
             THEN <<<<Obj(DataObj(row))>> \o rest[1], rest[2]>>
             ELSE <<rest[1], <<row>> \o rest[2]>>

HeuristicsRaises(parsed_rows) == \E i \in 1..Len(parsed_rows) : RowLowerRaises(parsed_rows[i])

(***************************************************************************)
(* validate_data_model                                                     *)
(***************************************************************************)
\* re.match(EMAIL_REGEX, s) with EMAIL_REGEX = ^[\w\.-]+@[\w\.-]+\.\w+$
\* ($ also matches before one trailing newline)
EmailBody(s) ==
    \E a \in 2..(Len(s) - 3) :
        /\ Char(s, a) = "@"
        /\ \A i \in 1..(a - 1) : IsAddrChar(Char(s, i))
        /\ \E d \in (a + 2)..(Len(s) - 1) :
              /\ Char(s, d) = "."
              /\ \A i \in (a + 1)..(d - 1) : IsAddrChar(Char(s, i))
              /\ \A i \in (d + 1)..Len(s) : IsWordChar(Char(s, i))

EmailMatch(s) ==
    \/ EmailBody(s)
    \/ s # "" /\ Char(s, Len(s)) = "\n" /\ EmailBody(SubSeq(s, 1, Len(s) - 1))

\* validate_data_model raises: `field in data_model` on a number (TypeError),
\* re.match (TypeError) or .strip() (AttributeError) on a value that is not a str
ValidateRaises(dm) ==
    \/ dm.kind = "num"
    \/ /\ dm.kind = "obj"
       /\ HasKey(dm.f, "name") /\ HasKey(dm.f, "email")
       /\ \/ GetTag(dm.f, "email") # "str"
          \/ EmailMatch(Get(dm.f, "email")) /\ GetTag(dm.f, "name") # "str"

\* validate_data_model without the check that name is not blank
validate_data_model_blank_name(dm) ==
    /\ dm.kind = "obj"
    /\ HasKey(dm.f, "name") /\ HasKey(dm.f, "email")
    /\ EmailMatch(Get(dm.f, "email"))
    /\ LET parts == StrSplit(Get(dm.f, "name")) IN
       \A i \in 1..Len(parts) : StrIsAlpha(parts[i])

\* the value returned when it does not raise
validate_data_model(dm) ==
    /\ dm.kind = "obj"
    /\ HasKey(dm.f, "name") /\ HasKey(dm.f, "email")
    /\ EmailMatch(Get(dm.f, "email"))
    /\ StrStrip(Get(dm.f, "name")) # ""
    /\ LET parts == StrSplit(Get(dm.f, "name")) IN
       \A i \in 1..Len(parts) : StrIsAlpha(parts[i])

(***************************************************************************)
(* Inputs of the model.                                                    *)
(***************************************************************************)
\* connection ids the messages carry
ConnIds == {"c1"}

\* what table.get_item finds for a connection id
Statuses == {"absent", "connected", "disconnected"}

Header == "firstName,lastName,email"

\* one CSV line each: accepted and valid, accepted and invalid, rejected by
\* the heuristics (no email), longer than the header
Lines == {"Alice,Smith,alice@example.com", "Bob,,bob@example",
          "Charlie,Brown,", "Dan,Lee,dan@x.io,extra"}

RECURSIVE JoinLines(_)
JoinLines(ls) == IF ls = <<>> THEN "" ELSE Head(ls) \o "\n" \o JoinLines(Tail(ls))

LineSeqs == UNION {[1..n -> Lines] : n \in 0..MaxRows}

CsvTexts == {Header \o "\n" \o JoinLines(ls) : ls \in LineSeqs}

\* message_body.get("data"): absent (None), or a str that may be empty
DataValues == {<<"none", "">>, <<"str", "">>} \cup {<<"str", t>> : t \in CsvTexts}

Messages == [connectionId : ConnIds, data : DataValues]

\* JSON values json.loads can return for a completion
GptValues ==
    { Obj(<<<<"name", "str", "Charlie Brown">>, <<"email", "str", "charlie@example.com">>>>),
      Obj(<<<<"name", "str", "Charlie Brown">>, <<"role", "str", "admin">>,
            <<"email", "str", "cb@example.com">>>>),
      Obj(<<<<"name", "str", "Charlie Brown">>, <<"email", "str", "cb@example.com">>,
            <<"role", "str", "">>>>),
      Obj(<<<<"name", "str", "Charlie Brown">>>>),
      [kind |-> "num", f |-> <<>>] }

\* outcomes of post_to_connection
PostOutcomes == {"ok", "ClientError", "Exception"}

(***************************************************************************)
(* State.                                                                  *)
(***************************************************************************)
VARIABLES
    nRecords,              \* len(event["Records"])
    table,                 \* the session store
    idx,                   \* position of the for loop over the records
    pc,                    \* "loop", "gate", "ai", "validate", "send", "done", "raised"
    ret,                   \* "running", "200" or the exception that left lambda_handler
    msg,                   \* message_body of the current record
    parsed_rows, structured_rows, failed_rows,
    ai_parsed_rows, still_failed_rows,
    attempt,               \* loop variable of generate_data_model_from_gpt
    gpt_result,            \* per failed row resolved so far: "json" or the exception raised
    completions,           \* completion calls of the latest generate_data_model_from_gpt
    validated_rows, invalid_rows,
    generated_data_models,
    outcome,               \* per record: "pending", "skipped", "lookup_error", "extracted"
    sendCalls,             \* per record: number of send_data_to_websocket calls
    postCalls,             \* per record: number of post_to_connection calls
    postResult,            \* per record: "none" or the outcome of post_to_connection
    suspended              \* the state of a concurrent invocation that is not running

locals == <<parsed_rows, structured_rows, failed_rows, ai_parsed_rows, still_failed_rows,
            attempt, gpt_result, completions, validated_rows, invalid_rows,
            generated_data_models>>

counters == <<outcome, sendCalls, postCalls, postResult>>

vars == <<nRecords, table, idx, pc, ret, msg, locals, counters, suspended>>

NoMsg == [connectionId |-> "c1", data |-> <<"none", "">>]
NoModels == [invites |-> <<>>, failedUsers |-> <<>>]

\* no other invocation of lambda_handler is in progress
NoInvocation == <<>>

Init ==
    /\ nRecords \in 1..MaxRecords
    /\ table \in [ConnIds -> Statuses]
    /\ idx = 1
    /\ pc = "loop"
    /\ ret = "running"
    /\ msg = NoMsg
    /\ parsed_rows = <<>> /\ structured_rows = <<>> /\ failed_rows = <<>>
    /\ ai_parsed_rows = <<>> /\ still_failed_rows = <<>>
    /\ attempt = 0
    /\ gpt_result = <<>>
    /\ completions = <<>>
    /\ validated_rows = <<>> /\ invalid_rows = <<>>
    /\ generated_data_models = NoModels
    /\ outcome = [i \in 1..nRecords |-> "pending"]
    /\ sendCalls = [i \in 1..nRecords |-> 0]
    /\ postCalls = [i \in 1..nRecords |-> 0]
    /\ postResult = [i \in 1..nRecords |-> "none"]
    /\ suspended = NoInvocation

\* validated_rows = [] and invalid_rows = [] hoisted out of the loop over the
\* records: the lists keep the rows of the previous record
FreshLocals_lists_kept ==
    /\ parsed_rows' = <<>> /\ structured_rows' = <<>> /\ failed_rows' = <<>>
    /\ ai_parsed_rows' = <<>> /\ still_failed_rows' = <<>>
    /\ attempt' = 0
    /\ gpt_result' = <<>>
    /\ completions' = <<>>
    /\ validated_rows' = validated_rows /\ invalid_rows' = invalid_rows
    /\ generated_data_models' = NoModels

\* ai_parsed kept in a list that outlives the batch: the fallback appends to
\* what the previous batch left
FreshLocals_ai_parsed_kept ==
    /\ parsed_rows' = <<>> /\ structured_rows' = <<>> /\ failed_rows' = <<>>
    /\ ai_parsed_rows' = ai_parsed_rows /\ still_failed_rows' = <<>>
    /\ attempt' = 0
    /\ gpt_result' = <<>>
    /\ completions' = <<>>
    /\ validated_rows' = <<>> /\ invalid_rows' = <<>>
    /\ generated_data_models' = NoModels

\* the locals of an iteration are dead once it ends: every iteration rebinds
\* them before it reads them
FreshLocals ==
    /\ parsed_rows' = <<>> /\ structured_rows' = <<>> /\ failed_rows' = <<>>
    /\ ai_parsed_rows' = <<>> /\ still_failed_rows' = <<>>
    /\ attempt' = 0
    /\ gpt_result' = <<>>
    /\ completions' = <<>>
    /\ validated_rows' = <<>> /\ invalid_rows' = <<>>
    /\ generated_data_models' = NoModels

(***************************************************************************)
(* lambda_handler: session gate                                            *)
(***************************************************************************)
\* the gate that only checks that the item exists
SessionActive_item_only(status) == status # "absent"

\* `not item or item.get("status") != "connected"` is false
SessionActive(status) == status = "connected"

\* `not csv_content`
NoCsvContent(data) == data[1] = "none" \/ data[2] = ""

\* DictReader and parse_with_heuristics of every text a message can carry
ParsedRowsOf == [t \in CsvTexts |-> DictReader(t)]

\* heuristics that also give up the rows whose candidate fails validation,
\* handing them to the AI fallback
HeuristicsOf_validating ==
    [t \in CsvTexts |->
        IF HeuristicsRaises(ParsedRowsOf[t])
        THEN <<<<>>, <<>>>>
        ELSE LET rows == ParsedRowsOf[t]
                 Ok(row) == HeuristicAccepts(row) /\ validate_data_model(Obj(DataObj(row)))
                 Bad(row) == ~Ok(row)
                 kept == SelectSeq(rows, Ok)
             IN  <<[i \in 1..Len(kept) |-> Obj(DataObj(kept[i]))], SelectSeq(rows, Bad)>>]

HeuristicsOf ==
    [t \in CsvTexts |-> IF HeuristicsRaises(ParsedRowsOf[t])
                        THEN <<<<>>, <<>>>>
                        ELSE parse_with_heuristics(ParsedRowsOf[t])]

\* for record in event["Records"]: message_body = json.loads(record["body"])
Receive ==
    /\ pc = "loop" /\ idx <= nRecords
    /\ msg' \in Messages
    /\ pc' = "gate"
    /\ UNCHANGED <<suspended, nRecords, table, idx, ret, locals, counters>>

\* the iteration ends without an exception leaving lambda_handler
EndIteration ==
    /\ idx' = idx + 1
    /\ pc' = "loop"
    /\ msg' = NoMsg
    /\ FreshLocals
    /\ ret' = ret

\* the lookup outside the try: ClientError leaves lambda_handler
GateLookupError_propagates ==
    /\ pc = "gate"
    /\ outcome' = [outcome EXCEPT ![idx] = "lookup_error"]
    /\ pc' = "raised"
    /\ ret' = "ClientError"
    /\ UNCHANGED <<idx, msg, locals>>
    /\ UNCHANGED <<suspended, nRecords, table, sendCalls, postCalls, postResult>>

\* table.get_item raises ClientError: caught at the end of the iteration
GateLookupError ==
    /\ pc = "gate"
    /\ outcome' = [outcome EXCEPT ![idx] = "lookup_error"]
    /\ EndIteration
    /\ UNCHANGED <<suspended, nRecords, table, sendCalls, postCalls, postResult>>

\* the session is missing or not connected: continue
GateSkip ==
    /\ pc = "gate"
    /\ ~SessionActive(table[msg.connectionId])
    /\ outcome' = [outcome EXCEPT ![idx] = "skipped"]
    /\ EndIteration
    /\ UNCHANGED <<suspended, nRecords, table, sendCalls, postCalls, postResult>>

\* the missing data answered by an early return instead of an exception
GateNoData_returns ==
    /\ pc = "gate"
    /\ SessionActive(table[msg.connectionId])
    /\ NoCsvContent(msg.data)
    /\ pc' = "done"
    /\ ret' = "200"
    /\ UNCHANGED <<suspended, nRecords, table, idx, msg, locals, counters>>

\* the missing data handled as a fault of the record: logged, next record
GateNoData_isolated ==
    /\ pc = "gate"
    /\ SessionActive(table[msg.connectionId])
    /\ NoCsvContent(msg.data)
    /\ EndIteration
    /\ UNCHANGED <<suspended, nRecords, table, counters>>

\* no data: ValueError("CSV content must be provided.") leaves lambda_handler
GateNoData ==
    /\ pc = "gate"
    /\ SessionActive(table[msg.connectionId])
    /\ NoCsvContent(msg.data)
    /\ pc' = "raised"
    /\ ret' = "ValueError"
    /\ UNCHANGED <<suspended, nRecords, table, idx, msg, locals, counters>>

\* CSV parsing and parse_with_heuristics
Extract ==
    /\ pc = "gate"
    /\ SessionActive(table[msg.connectionId])
    /\ ~NoCsvContent(msg.data)
    /\ parsed_rows' = ParsedRowsOf[msg.data[2]]
    /\ IF HeuristicsRaises(ParsedRowsOf[msg.data[2]])
       THEN /\ pc' = "raised"
            /\ ret' = "AttributeError"
            /\ UNCHANGED <<structured_rows, failed_rows>>
       ELSE /\ structured_rows' = HeuristicsOf[msg.data[2]][1]
            /\ failed_rows' = HeuristicsOf[msg.data[2]][2]
            /\ pc' = IF HeuristicsOf[msg.data[2]][2] # <<>> THEN "ai" ELSE "validate"
            /\ ret' = ret
    /\ outcome' = [outcome EXCEPT ![idx] = "extracted"]
    /\ UNCHANGED <<suspended, nRecords, table, idx, msg, ai_parsed_rows, still_failed_rows, attempt,
                   gpt_result, completions, validated_rows, invalid_rows,
                   generated_data_models, sendCalls, postCalls, postResult>>

(***************************************************************************)
(* parse_with_ai_fallback and generate_data_model_from_gpt                 *)
(***************************************************************************)
\* what one completion can be: a provider/network error raised by create(),
\* a text json.loads rejects, or a text json.loads turns into a value
ResponseKinds == {"error", "malformed", "json"}

\* the retry loop that raises ValueError, not the error caught, once the
\* attempts are used up
GptControl_wraps_error(a, kind) ==
    CASE kind = "json" -> "return"
      [] kind = "malformed" -> "ValueError"
      [] kind = "error" -> IF a < max_retries - 1 THEN "retry" ELSE "ValueError"

\* the retry loop that re-raises one attempt too late
GptControl_late_reraise(a, kind) ==
    CASE kind = "json" -> "return"
      [] kind = "malformed" -> "ValueError"
      [] kind = "error" -> IF a < max_retries THEN "retry" ELSE "reraise"

\* the retry loop with one except clause: a parsing error is retried too
GptControl_retry_parse_error(a, kind) ==
    CASE kind = "json" -> "return"
      [] kind \in {"malformed", "error"} ->
            IF a < max_retries - 1 THEN "retry"
            ELSE IF kind = "malformed" THEN "ValueError" ELSE "reraise"

\* generate_data_model_from_gpt after one call made with loop variable a:
\* "return" the value, raise "ValueError", "retry", or "reraise" the error
GptControl(a, kind) ==
    CASE kind = "json" -> "return"
      [] kind = "malformed" -> "ValueError"
      [] kind = "error" -> IF a < max_retries - 1 THEN "retry" ELSE "reraise"

\* `except ValueError` in place of `except Exception`
FallbackCatches_value_error(exc) == exc = "ValueError"

\* `except Exception` of parse_with_ai_fallback
FallbackCatches(exc) == exc \in {"ValueError", "ProviderError"}

\* the failed row being resolved
CurrentRow == Len(gpt_result) + 1

\* the fallback that stops after its first row and hands over to validation
RowDone_first_row_only(ai, sf, res) ==
    /\ ai_parsed_rows' = ai
    /\ still_failed_rows' = sf
    /\ gpt_result' = Append(gpt_result, res)
    /\ attempt' = 0
    /\ structured_rows' = structured_rows \o ai
    /\ pc' = "validate"
    /\ ret' = ret

\* the end of the fallback with structured_rows = ai_parsed in place of extend
RowDone_assign(ai, sf, res) ==
    /\ ai_parsed_rows' = ai
    /\ still_failed_rows' = sf
    /\ gpt_result' = Append(gpt_result, res)
    /\ attempt' = 0
    /\ IF CurrentRow = Len(failed_rows)
       THEN /\ structured_rows' = ai
            /\ pc' = "validate"
       ELSE /\ structured_rows' = structured_rows
            /\ pc' = "ai"
    /\ ret' = ret

\* the row is resolved or given up: next row, or the end of the fallback and
\* structured_rows.extend(ai_parsed)
RowDone(ai, sf, res) ==
    /\ ai_parsed_rows' = ai
    /\ still_failed_rows' = sf
    /\ gpt_result' = Append(gpt_result, res)
    /\ attempt' = 0
    /\ IF CurrentRow = Len(failed_rows)
       THEN /\ structured_rows' = structured_rows \o ai
            /\ pc' = "validate"
       ELSE /\ structured_rows' = structured_rows
            /\ pc' = "ai"
    /\ ret' = ret

\* an exception leaves generate_data_model_from_gpt
RowRaised(exc) ==
    IF FallbackCatches(exc)
    THEN RowDone(ai_parsed_rows, Append(still_failed_rows, failed_rows[CurrentRow]), exc)
    ELSE /\ pc' = "raised"
         /\ ret' = exc
         /\ UNCHANGED <<ai_parsed_rows, still_failed_rows, gpt_result, attempt, structured_rows>>

\* one call of openai_client.chat.completions.create and what follows it
CompletionCall(kind, value) ==
    /\ pc = "ai"
    /\ completions' = Append(IF attempt = 0 THEN <<>> ELSE completions,
                             [i |-> CurrentRow, row |-> failed_rows[CurrentRow],
                              attempt |-> attempt, kind |-> kind])
    /\ LET c == GptControl(attempt, kind) IN
       CASE c = "return" -> RowDone(Append(ai_parsed_rows, value), still_failed_rows, "json")
         [] c = "ValueError" -> RowRaised("ValueError")
         [] c = "reraise" -> RowRaised("ProviderError")
         [] c = "retry" -> /\ attempt' = attempt + 1
                           /\ UNCHANGED <<ai_parsed_rows, still_failed_rows, gpt_result,
                                          structured_rows, pc, ret>>
    /\ UNCHANGED <<suspended, nRecords, table, idx, msg, parsed_rows, failed_rows, validated_rows,
                   invalid_rows, generated_data_models, outcome, sendCalls, postCalls,
                   postResult>>

GptReturnsJson == \E v \in GptValues : CompletionCall("json", v)
GptReturnsMalformed == CompletionCall("malformed", Obj(<<>>))
GptProviderError == CompletionCall("error", Obj(<<>>))

(***************************************************************************)
(* lambda_handler: validation and finalizing                               *)
(***************************************************************************)
\* `"role" not in row` alone: an empty role is kept
RoleMissing_key_only(dm) == ~HasKey(dm.f, "role")

\* `"role" not in row or not row["role"]`
RoleMissing(dm) ==
    \/ ~HasKey(dm.f, "role")
    \/ GetTag(dm.f, "role") = "none"
    \/ GetTag(dm.f, "role") = "str" /\ Get(dm.f, "role") = ""

WithRole(dm) == IF RoleMissing(dm) THEN Obj(DictSet(dm.f, "role", "str", DEFAULT_ROLE)) ELSE dm

\* the loop that appends every row to validated_rows: no validation
RECURSIVE Partition_no_validation(_)
Partition_no_validation(rows) ==
    IF rows = <<>> THEN <<<<>>, <<>>>>
    ELSE LET rest == Partition_no_validation(Tail(rows))
         IN  <<<<WithRole(Head(rows))>> \o rest[1], rest[2]>>

\* <<validated_rows, invalid_rows>>
RECURSIVE Partition(_)
Partition(rows) ==
    IF rows = <<>> THEN <<<<>>, <<>>>>
    ELSE LET row == Head(rows)
             rest == Partition(Tail(rows))
         IN  IF validate_data_model(row)
             THEN <<<<WithRole(row)>> \o rest[1], rest[2]>>
             ELSE <<rest[1], <<row>> \o rest[2]>>

ValidationRaises(rows) == \E i \in 1..Len(rows) : ValidateRaises(rows[i])

Validate ==
    /\ pc = "validate"
    /\ IF ValidationRaises(structured_rows)
       THEN /\ pc' = "raised"
            /\ ret' = "TypeError"
            /\ UNCHANGED <<validated_rows, invalid_rows, generated_data_models,
                           structured_rows>>
       ELSE /\ LET parts == Partition(structured_rows) IN
               \* the loop appends to the lists bound just before it
               /\ validated_rows' = validated_rows \o parts[1]
               /\ invalid_rows' = invalid_rows \o parts[2]
               /\ generated_data_models' = [invites |-> validated_rows \o parts[1],
                                            failedUsers |-> invalid_rows \o parts[2]]
            \* row["role"] = DEFAULT_ROLE writes through to structured_rows
            /\ structured_rows' = [i \in 1..Len(structured_rows) |->
                                     IF validate_data_model(structured_rows[i])
                                     THEN WithRole(structured_rows[i])
                                     ELSE structured_rows[i]]
            /\ pc' = "send"
            /\ ret' = ret
    /\ UNCHANGED <<suspended, nRecords, table, idx, msg, parsed_rows, failed_rows, ai_parsed_rows,
                   still_failed_rows, attempt, gpt_result, completions, counters>>

(***************************************************************************)
(* send_data_to_websocket                                                  *)
(***************************************************************************)
\* send_data_to_websocket with `except ClientError` only
SendRaises_client_error_only(o) == o = "Exception"

\* an exception of post_to_connection that neither except clause catches
SendRaises(o) == FALSE

Deliver ==
    /\ pc = "send"
    /\ \E o \in PostOutcomes :
          /\ postResult' = [postResult EXCEPT ![idx] = o]
          /\ IF SendRaises(o)
             THEN /\ pc' = "raised" /\ ret' = o
                  /\ UNCHANGED <<idx, msg, locals>>
             ELSE EndIteration
    /\ sendCalls' = [sendCalls EXCEPT ![idx] = @ + 1]
    /\ postCalls' = [postCalls EXCEPT ![idx] = @ + 1]
    /\ UNCHANGED <<suspended, nRecords, table, outcome>>

\* the loop is over: return {"statusCode": 200, ...}
Return ==
    /\ pc = "loop" /\ idx > nRecords
    /\ pc' = "done"
    /\ ret' = "200"
    /\ UNCHANGED <<suspended, nRecords, table, idx, msg, locals, counters>>

Next ==
    \/ Receive
    \/ GateLookupError
    \/ GateSkip
    \/ GateNoData
    \/ Extract
    \/ GptReturnsJson
    \/ GptReturnsMalformed
    \/ GptProviderError
    \/ Validate
    \/ Deliver
    \/ Return

Spec == Init /\ [][Next]_vars

TypeOK ==
    /\ pc \in {"loop", "gate", "ai", "validate", "send", "done", "raised"}
    /\ idx \in 1..(nRecords + 1)
    /\ attempt \in 0..(max_retries - 1)

(***************************************************************************)
(* parse_with_heuristics called on its own, as the unit tests call it.     *)
(***************************************************************************)
\* rows as csv.DictReader hands them over: headers of the tests and of the
\* sqs_event fixture, header synonyms, a short row (None cells) and a long
\* row (surplus cell under the key None)
HeuristicRows ==
    { <<<<"firstName", "str", "Alice">>, <<"lastName", "str", "Smith">>,
        <<"email", "str", "alice@example.com">>>>,
      <<<<"name", "str", "Bob Jones">>, <<"Email", "str", "bob@example.com">>>>,
      <<<<"firstName", "str", "Charlie">>, <<"lastName", "str", "Brown">>>>,
      <<<<"firstName", "str", "Bob">>, <<"lastName", "str", "">>,
        <<"email", "str", "bob@example">>>>,
      <<<<"f_name", "str", "Eve">>, <<"surname", "str", "Adams">>,
        <<"mail", "str", "eve@x.io">>>>,
      <<<<"name", "str", "Zed">>, <<"firstName", "str", "Amy">>,
        <<"email", "str", "amy@x.io">>>>,
      <<<<"Last Name", "str", "Smith">>, <<"Email Address", "str", " s@x.io">>,
        <<"mobile", "str", "555">>>>,
      <<<<"Full Name", "str", "Cher">>, <<"email", "str", "cher@x.io">>>>,
      <<<<"Name", "str", " Cher ">>, <<"email", "str", "cher@x.io">>>>,
      <<<<"First", "str", "Amy ">>, <<"Last", "str", " Lee">>, <<"email", "str", "amy@x.io">>>>,
      <<<<"name", "str", "Eve">>, <<"Email", "str", "">>, <<"mail", "str", "eve@x.io">>>>,
      <<<<"name", "str", "Max">>, <<"mail", "str", "m@x.io">>, <<"email", "str", "e@x.io">>>>,
      <<<<"Email", "str", "old@x.io">>, <<"name", "str", "Ann">>,
        <<"email", "str", "new@x.io">>>>,
      <<<<"name", "str", "Eve">>, <<"email", "str", " ">>, <<"mail", "str", "eve@x.io">>>>,
      <<<<"firstName", "str", "Dan">>, <<"lastName", "none", "">>, <<"email", "none", "">>>>,
      <<<<"firstName", "str", "Dan">>, <<"lastName", "str", "Lee">>,
        <<"email", "str", "dan@x.io">>, <<"", "restkey", "">>>> }

HeuristicInputs == UNION {[1..n -> HeuristicRows] : n \in 0..MaxRows}

\* the variables parse_with_heuristics does not touch
OutsideHeuristics ==
    <<suspended, nRecords, table, idx, msg, ai_parsed_rows, still_failed_rows, attempt, gpt_result,
      completions, validated_rows, invalid_rows, generated_data_models, counters>>

InitHeuristics ==
    /\ parsed_rows \in HeuristicInputs
    /\ structured_rows = <<>> /\ failed_rows = <<>>
    /\ pc = "call"
    /\ ret = "running"
    /\ nRecords = 1
    /\ table = [c \in ConnIds |-> "connected"]
    /\ idx = 1
    /\ msg = NoMsg
    /\ ai_parsed_rows = <<>> /\ still_failed_rows = <<>>
    /\ attempt = 0
    /\ gpt_result = <<>>
    /\ completions = <<>>
    /\ validated_rows = <<>> /\ invalid_rows = <<>>
    /\ generated_data_models = NoModels
    /\ outcome = [i \in 1..1 |-> "pending"]
    /\ sendCalls = [i \in 1..1 |-> 0]
    /\ postCalls = [i \in 1..1 |-> 0]
    /\ postResult = [i \in 1..1 |-> "none"]
    /\ suspended = NoInvocation

\* return structured_rows, failed_rows
HeuristicsReturn ==
    /\ pc = "call"
    /\ ~HeuristicsRaises(parsed_rows)
    /\ structured_rows' = parse_with_heuristics(parsed_rows)[1]
    /\ failed_rows' = parse_with_heuristics(parsed_rows)[2]
    /\ pc' = "returned"
    /\ UNCHANGED <<parsed_rows, ret, OutsideHeuristics>>

\* k.lower() on the key None of a long row
HeuristicsRaise ==
    /\ pc = "call"
    /\ HeuristicsRaises(parsed_rows)
    /\ pc' = "raised"
    /\ ret' = "AttributeError"
    /\ UNCHANGED <<parsed_rows, structured_rows, failed_rows, OutsideHeuristics>>

NextHeuristics == HeuristicsReturn \/ HeuristicsRaise

SpecHeuristics == InitHeuristics /\ [][NextHeuristics]_vars

(***************************************************************************)
(* validate_data_model called on its own, as the unit tests call it.       *)
(***************************************************************************)
\* names and emails of the tests and of the fixture, and variations of them
ValidateNames ==
    {"Alice Smith", "Bob", "Dave123", "", " ", "a  b", "Jean-Luc", " Cher "}

ValidateEmails ==
    {"alice@example.com", "bob@example", "charlie@invalid@.com", "a@b.12", "a@b..c",
     "a@b.c\n", "", "x y@b.c", "a@b.__", "@b.c", "a.b@c"}

\* dicts with or without name and email (and another field), dicts whose
\* name or email is a JSON number or null, and a JSON number
ValidateInputs ==
    {Obj(<<<<"name", "str", n>>, <<"email", "str", e>>>>) :
        n \in ValidateNames, e \in ValidateEmails}
    \cup {Obj(<<<<"name", "str", n>>>>) : n \in ValidateNames}
    \cup {Obj(<<<<"email", "str", e>>, <<"phoneNumber", "str", "123456">>>>) :
              e \in ValidateEmails}
    \cup {Obj(<<<<"name", "str", "Alice Smith">>, <<"email", "str", "alice@example.com">>,
                 <<"phoneNumber", "str", "123456">>>>),
          Obj(<<>>),
          Obj(<<<<"name", "num", "">>, <<"email", "str", "alice@example.com">>>>),
          Obj(<<<<"name", "num", "">>, <<"email", "str", "bob@example">>>>),
          Obj(<<<<"name", "str", "Bob">>, <<"email", "num", "">>>>),
          Obj(<<<<"name", "str", "Bob">>, <<"email", "none", "">>>>),
          [kind |-> "num", f |-> <<>>]}

\* structured_rows holds the one data_model passed, ret what comes back
InitValidate ==
    /\ \E dm \in ValidateInputs : structured_rows = <<dm>>
    /\ pc = "call"
    /\ ret = "running"
    /\ parsed_rows = <<>> /\ failed_rows = <<>>
    /\ nRecords = 1
    /\ table = [c \in ConnIds |-> "connected"]
    /\ idx = 1
    /\ msg = NoMsg
    /\ ai_parsed_rows = <<>> /\ still_failed_rows = <<>>
    /\ attempt = 0
    /\ gpt_result = <<>>
    /\ completions = <<>>
    /\ validated_rows = <<>> /\ invalid_rows = <<>>
    /\ generated_data_models = NoModels
    /\ outcome = [i \in 1..1 |-> "pending"]
    /\ sendCalls = [i \in 1..1 |-> 0]
    /\ postCalls = [i \in 1..1 |-> 0]
    /\ postResult = [i \in 1..1 |-> "none"]
    /\ suspended = NoInvocation

\* return True / return False
ValidateReturn ==
    /\ pc = "call"
    /\ ~ValidateRaises(structured_rows[1])
    /\ ret' = IF validate_data_model(structured_rows[1]) THEN "True" ELSE "False"
    /\ pc' = "returned"
    /\ UNCHANGED <<parsed_rows, structured_rows, failed_rows, OutsideHeuristics>>

\* TypeError or AttributeError on a value that is not a dict or not a str
ValidateRaise ==
    /\ pc = "call"
    /\ ValidateRaises(structured_rows[1])
    /\ ret' = IF structured_rows[1].kind = "obj" /\ GetTag(structured_rows[1].f, "email") = "str"
              THEN "AttributeError" ELSE "TypeError"
    /\ pc' = "raised"
    /\ UNCHANGED <<parsed_rows, structured_rows, failed_rows, OutsideHeuristics>>

NextValidate == ValidateReturn \/ ValidateRaise

SpecValidate == InitValidate /\ [][NextValidate]_vars

(***************************************************************************)
(* Two invocations of lambda_handler interleaved, and the gateway that     *)
(* owns the session store.  An invocation has no state outside its own     *)
(* frame: the module level holds the clients only.  The variables carry    *)
(* the frame of the invocation that takes the next step, `suspended` the   *)
(* frame of the other one.                                                 *)
(***************************************************************************)
\* the frame of the running invocation
Invocation ==
    [nRecords |-> nRecords, idx |-> idx, pc |-> pc, ret |-> ret, msg |-> msg,
     parsed_rows |-> parsed_rows, structured_rows |-> structured_rows,
     failed_rows |-> failed_rows, ai_parsed_rows |-> ai_parsed_rows,
     still_failed_rows |-> still_failed_rows, attempt |-> attempt,
     gpt_result |-> gpt_result, completions |-> completions,
     validated_rows |-> validated_rows, invalid_rows |-> invalid_rows,
     generated_data_models |-> generated_data_models, outcome |-> outcome,
     sendCalls |-> sendCalls, postCalls |-> postCalls, postResult |-> postResult]

\* an invocation that has not entered the loop over its n records
InvocationStart(n) ==
    [nRecords |-> n, idx |-> 1, pc |-> "loop", ret |-> "running", msg |-> NoMsg,
     parsed_rows |-> <<>>, structured_rows |-> <<>>, failed_rows |-> <<>>,
     ai_parsed_rows |-> <<>>, still_failed_rows |-> <<>>, attempt |-> 0,
     gpt_result |-> <<>>, completions |-> <<>>,
     validated_rows |-> <<>>, invalid_rows |-> <<>>,
     generated_data_models |-> NoModels,
     outcome |-> [i \in 1..n |-> "pending"],
     sendCalls |-> [i \in 1..n |-> 0],
     postCalls |-> [i \in 1..n |-> 0],
     postResult |-> [i \in 1..n |-> "none"]]

\* the events of the two invocations carry one or two records
ConcurrentRecords == {1, 2}

\* the data of the messages the two invocations receive: none, a batch with
\* a row for the fallback, a batch the heuristics structure alone
ConcurrentData ==
    {<<"none", "">>,
     <<"str", Header \o "\n" \o JoinLines(<<"Alice,Smith,alice@example.com", "Charlie,Brown,">>)>>,
     <<"str", Header \o "\n" \o JoinLines(<<"Bob,,bob@example">>)>>}

InitConcurrent ==
    /\ nRecords \in ConcurrentRecords
    /\ table \in [ConnIds -> Statuses]
    /\ idx = 1
    /\ pc = "loop"
    /\ ret = "running"
    /\ msg = NoMsg
    /\ parsed_rows = <<>> /\ structured_rows = <<>> /\ failed_rows = <<>>
    /\ ai_parsed_rows = <<>> /\ still_failed_rows = <<>>
    /\ attempt = 0
    /\ gpt_result = <<>>
    /\ completions = <<>>
    /\ validated_rows = <<>> /\ invalid_rows = <<>>
    /\ generated_data_models = NoModels
    /\ outcome = [i \in 1..nRecords |-> "pending"]
    /\ sendCalls = [i \in 1..nRecords |-> 0]
    /\ postCalls = [i \in 1..nRecords |-> 0]
    /\ postResult = [i \in 1..nRecords |-> "none"]
    /\ suspended = InvocationStart(1)

\* the next record of the running invocation
ReceiveConcurrent == Receive /\ msg'.data \in ConcurrentData

\* the other invocation takes the next step
Switch ==
    /\ suspended # NoInvocation
    /\ suspended' = Invocation
    /\ nRecords' = suspended.nRecords
    /\ idx' = suspended.idx
    /\ pc' = suspended.pc
    /\ ret' = suspended.ret
    /\ msg' = suspended.msg
    /\ parsed_rows' = suspended.parsed_rows
    /\ structured_rows' = suspended.structured_rows
    /\ failed_rows' = suspended.failed_rows
    /\ ai_parsed_rows' = suspended.ai_parsed_rows
    /\ still_failed_rows' = suspended.still_failed_rows
    /\ attempt' = suspended.attempt
    /\ gpt_result' = suspended.gpt_result
    /\ completions' = suspended.completions
    /\ validated_rows' = suspended.validated_rows
    /\ invalid_rows' = suspended.invalid_rows
    /\ generated_data_models' = suspended.generated_data_models
    /\ outcome' = suspended.outcome
    /\ sendCalls' = suspended.sendCalls
    /\ postCalls' = suspended.postCalls
    /\ postResult' = suspended.postResult
    /\ UNCHANGED table

\* $connect: table.put_item with "status": "connected"
GatewayConnect ==
    /\ \E c \in ConnIds :
          /\ table[c] # "connected"
          /\ table' = [table EXCEPT ![c] = "connected"]
    /\ UNCHANGED <<nRecords, idx, pc, ret, msg, locals, counters, suspended>>

\* the gateway lifecycle manager marks the connection disconnected
GatewayDisconnect ==
    /\ \E c \in ConnIds :
          /\ table[c] = "connected"
          /\ table' = [table EXCEPT ![c] = "disconnected"]
    /\ UNCHANGED <<nRecords, idx, pc, ret, msg, locals, counters, suspended>>

NextConcurrent ==
    \/ ReceiveConcurrent
    \/ GateLookupError
    \/ GateSkip
    \/ GateNoData
    \/ Extract
    \/ GptReturnsJson
    \/ GptReturnsMalformed
    \/ GptProviderError
    \/ Validate
    \/ Deliver
    \/ Return
    \/ Switch
    \/ GatewayConnect
    \/ GatewayDisconnect

SpecConcurrent == InitConcurrent /\ [][NextConcurrent]_vars

(***************************************************************************)
(* Properties.                                                             *)
(***************************************************************************)
Last(q) == q[Len(q)]

\* number of failed rows the completion API resolved into JSON
JsonCount == Cardinality({k \in 1..Len(gpt_result) : gpt_result[k] = "json"})

\* the latest generate_data_model_from_gpt has ended
GptEnded == completions # <<>> /\ completions[1].i = Len(gpt_result)

\* C1: for every batch of a connected session with non-empty data, the result
\* handed to delivery has len(invites) + len(failedUsers) = number of CSV data
\* rows.
C1_RowsConserved ==
    pc = "send" =>
        Len(generated_data_models.invites) + Len(generated_data_models.failedUsers)
            = Len(parsed_rows)

\* C2: a row the heuristics reject and the AI fallback fails to resolve (a row
\* of still_failed) appears in failedUsers of the result delivered for its batch.
C2_StillFailedInFailedUsers ==
    pc = "send" =>
        \A i \in 1..Len(still_failed_rows) :
            \E j \in 1..Len(generated_data_models.failedUsers) :
                generated_data_models.failedUsers[j].f = still_failed_rows[i]

\* a step taken at the gate while the session is missing or not connected ends
\* the iteration and leaves every local of the pipeline unbound
C3_SkipStep ==
    (pc = "gate" /\ table[msg.connectionId] # "connected") =>
        /\ pc' = "loop" /\ idx' = idx + 1 /\ ret' = "running"
        /\ parsed_rows' = <<>> /\ structured_rows' = <<>> /\ failed_rows' = <<>>
        /\ completions' = <<>> /\ gpt_result' = <<>>
        /\ validated_rows' = <<>> /\ invalid_rows' = <<>>
        /\ generated_data_models' = NoModels
        /\ sendCalls' = sendCalls /\ postCalls' = postCalls /\ postResult' = postResult

\* C3: when the session of a batch is missing or not connected, the handler
\* parses, extracts, calls the completion API, validates and delivers nothing
\* for it, raises nothing and goes on to the next record.
C3_DisconnectedBatchSkipped ==
    /\ [][C3_SkipStep]_vars
    /\ [](\A i \in 1..nRecords :
            outcome[i] = "skipped" => sendCalls[i] = 0 /\ postCalls[i] = 0)

C3_Witness ==
    /\ nRecords = 2 /\ outcome[1] = "skipped" /\ idx = 2 /\ pc = "gate"
    /\ table[msg.connectionId] = "disconnected"

\* the rows a message can carry, and those whose data_obj lacks name or email
AllRows == UNION {{ParsedRowsOf[t][i] : i \in 1..Len(ParsedRowsOf[t])} : t \in CsvTexts}
RejectedRows == {r \in AllRows : ~HeuristicAccepts(r)}

\* C4: the completion API is called only for rows parse_with_heuristics put in
\* its failed list: never for a row the heuristics structured, and never in a
\* batch in which the heuristics reject no row.
C4_AiOnlyForRejected ==
    /\ \A k \in 1..Len(completions) :
          /\ completions[k].row \in RejectedRows
          /\ \E i \in 1..Len(parsed_rows) : parsed_rows[i] = completions[k].row
    /\ (\A i \in 1..Len(parsed_rows) : parsed_rows[i] \notin RejectedRows) =>
          completions = <<>> /\ gpt_result = <<>> /\ pc # "ai"

C4_Witness ==
    /\ pc = "validate" /\ completions # <<>>
    /\ Len(parsed_rows) = 2 /\ Len(failed_rows) = 1
    /\ parsed_rows[1] \notin RejectedRows

\* C5: no extractor bypasses validation: every record of the delivered invites
\* passes validate_data_model, and every candidate that fails it is in
\* failedUsers and not in invites.
C5_NoValidationBypass ==
    pc = "send" =>
        LET invites == generated_data_models.invites
            failedUsers == generated_data_models.failedUsers
        IN  /\ \A j \in 1..Len(invites) : validate_data_model(invites[j])
            /\ \A i \in 1..Len(structured_rows) :
                  ~validate_data_model(structured_rows[i]) =>
                      /\ \E j \in 1..Len(failedUsers) : failedUsers[j] = structured_rows[i]
                      /\ \A j \in 1..Len(invites) : invites[j] # structured_rows[i]
            /\ Len(invites) + Len(failedUsers) = Len(structured_rows)

C5_Witness ==
    /\ pc = "send" /\ ai_parsed_rows # <<>>
    /\ Len(generated_data_models.invites) = 1
    /\ Len(generated_data_models.failedUsers) = 1

\* C6: generate_data_model_from_gpt makes at most 3 completion calls per row;
\* a call is followed by another only after a provider error, so parseable
\* JSON ends it; when every call raises a provider error there are exactly 3
\* calls, the error leaves the function, the row goes to still_failed and
\* nothing is added to the AI-parsed rows or to the candidates of the result.
C6_RetryBudget ==
    /\ Len(completions) <= 3
    /\ \A k \in 1..Len(completions) :
          /\ completions[k].i = completions[1].i
          /\ completions[k].attempt = k - 1
          /\ k < Len(completions) => completions[k].kind = "error"
    /\ (Len(completions) = 3 /\ Last(completions).kind = "error") =>
          /\ GptEnded
          /\ Last(gpt_result) = "ProviderError"
          /\ still_failed_rows # <<>> /\ Last(still_failed_rows) = completions[1].row
    /\ (GptEnded /\ Last(gpt_result) = "ProviderError") =>
          Len(completions) = 3 /\ Last(completions).kind = "error"
    /\ (completions # <<>> /\ Last(completions).kind = "json") =>
          GptEnded /\ Last(gpt_result) = "json"
    /\ Len(ai_parsed_rows) = JsonCount
    /\ pc \in {"validate", "send"} =>
          Len(structured_rows) = Len(parsed_rows) - Len(failed_rows) + JsonCount

C6_Witness ==
    /\ pc = "validate"
    /\ Len(completions) = 3 /\ Last(completions).kind = "error"
    /\ Last(gpt_result) = "ProviderError"
    /\ ai_parsed_rows = <<>>

\* C7 as stated: a response that is not valid JSON makes
\* generate_data_model_from_gpt fail after exactly one completion call,
\* whatever attempt it occurs on.
C7_ExactlyOneCall ==
    \A k \in 1..Len(completions) :
        completions[k].kind = "malformed" => Len(completions) = 1

\* C7 as amended: a response that is not valid JSON is never retried:
\* generate_data_model_from_gpt fails with ValueError at once and makes no
\* further completion call, so it made as many calls as the attempt number on
\* which the response occurred; and ValueError has no other cause.
C7_MalformedNotRetried ==
    /\ \A k \in 1..Len(completions) :
          completions[k].kind = "malformed" =>
              /\ k = Len(completions)
              /\ Len(completions) = completions[k].attempt + 1
              /\ GptEnded
              /\ Last(gpt_result) = "ValueError"
              /\ still_failed_rows # <<>> /\ Last(still_failed_rows) = completions[k].row
    /\ (GptEnded /\ Last(gpt_result) = "ValueError") =>
          Last(completions).kind = "malformed"

C7_Witness ==
    /\ Len(completions) = 2
    /\ completions[1].kind = "error" /\ completions[2].kind = "malformed"
    /\ Last(gpt_result) = "ValueError"

\* C8: per-row isolation in the AI fallback: an exception raised while one row
\* is resolved moves that row to still_failed, the remaining rows are still
\* processed, parse_with_ai_fallback never raises and
\* len(ai_parsed) + len(still_failed) = len(failed_rows).
C8_PerRowIsolation ==
    /\ Len(ai_parsed_rows) + Len(still_failed_rows) = Len(gpt_result)
    /\ Len(still_failed_rows) = Len(gpt_result) - JsonCount
    /\ \A i \in 1..Len(still_failed_rows) :
          \E j \in 1..Len(failed_rows) : failed_rows[j] = still_failed_rows[i]
    /\ pc \in {"validate", "send"} =>
          /\ Len(gpt_result) = Len(failed_rows)
          /\ Len(ai_parsed_rows) + Len(still_failed_rows) = Len(failed_rows)
    /\ pc = "raised" => ret \notin {"ProviderError"}
    /\ (pc = "raised" /\ ret = "ValueError") => outcome[idx] = "pending"

C8_Witness ==
    /\ pc = "validate" /\ Len(failed_rows) = 2
    /\ gpt_result[1] = "ProviderError" /\ gpt_result[2] = "json"

\* C9: for every batch that passes the session gate and carries non-empty
\* data, send_data_to_websocket is called exactly once, also when rows fail
\* heuristics, AI resolution or validation.
C9_DeliveredExactlyOnce ==
    \A i \in 1..nRecords :
        (outcome[i] = "extracted" /\ (idx > i \/ pc \in {"raised", "done"})) =>
            sendCalls[i] = 1

\* C10: a failure of the delivery channel send is swallowed: post_to_connection
\* is invoked at most once per batch, the failure does not leave
\* send_data_to_websocket, the handler goes on to the next record, and it
\* returns statusCode 200 when the loop ends.
C10_SendFailureSwallowed ==
    /\ \A i \in 1..nRecords :
          /\ postCalls[i] <= 1 /\ sendCalls[i] <= 1
          /\ postResult[i] \in {"ClientError", "Exception"} =>
                /\ idx > i
                /\ postCalls[i] = 1
    /\ pc = "raised" => postResult[idx] = "none"
    /\ pc = "done" => ret = "200"

C10_Witness ==
    /\ nRecords = 2 /\ pc = "done" /\ ret = "200"
    /\ postResult[1] = "Exception" /\ postResult[2] = "ClientError"

\* a step taken at the gate once the lookup returned a connected session, for
\* a message with no data or empty data, raises ValueError and runs nothing else
C11_NoDataStep ==
    (/\ pc = "gate" /\ table[msg.connectionId] = "connected"
     /\ outcome'[idx] # "lookup_error"
     /\ (msg.data[1] = "none" \/ msg.data[2] = "")) =>
        /\ pc' = "raised" /\ ret' = "ValueError" /\ idx' = idx
        /\ UNCHANGED <<locals, counters>>

\* C11: when the message of a connected session has missing or empty data,
\* lambda_handler raises ValueError instead of isolating the fault, and no
\* extraction, completion call or delivery happens for that batch.
C11_MissingDataRaises ==
    /\ [][C11_NoDataStep]_vars
    /\ []((pc = "raised" /\ ret = "ValueError") =>
            /\ outcome[idx] = "pending"
            /\ parsed_rows = <<>> /\ structured_rows = <<>> /\ failed_rows = <<>>
            /\ completions = <<>> /\ gpt_result = <<>>
            /\ generated_data_models = NoModels
            /\ sendCalls[idx] = 0 /\ postCalls[idx] = 0)

C11_Witness ==
    /\ nRecords = 2 /\ idx = 2 /\ sendCalls[1] = 1
    /\ pc = "raised" /\ ret = "ValueError"
    /\ msg.data = <<"str", "">>

\* the candidates of the batch as the extractors produced them
C12_Candidates == HeuristicsOf[msg.data[2]][1] \o ai_parsed_rows

\* C12: every record of invites has a non-empty role: a validated record that
\* lacks a role gets "employee", a validated record with a non-empty role
\* from the completion API keeps it, and a record of failedUsers is the
\* candidate as extracted, with no role added.
C12_RoleDefault ==
    pc = "send" =>
        LET invites == generated_data_models.invites
            failedUsers == generated_data_models.failedUsers
            cands == C12_Candidates
        IN  /\ \A j \in 1..Len(invites) :
                  /\ HasKey(invites[j].f, "role")
                  /\ GetTag(invites[j].f, "role") = "str"
                  /\ Get(invites[j].f, "role") # ""
            /\ Len(invites) + Len(failedUsers) = Len(cands)
            /\ \A i \in 1..Len(cands) :
                  IF validate_data_model(cands[i])
                  THEN \E j \in 1..Len(invites) :
                          invites[j] =
                             IF HasKey(cands[i].f, "role") /\ Get(cands[i].f, "role") # ""
                             THEN cands[i]
                             ELSE Obj(DictSet(cands[i].f, "role", "str", "employee"))
                  ELSE \E j \in 1..Len(failedUsers) : failedUsers[j] = cands[i]
            /\ \A j \in 1..Len(failedUsers) :
                  \E i \in 1..Len(cands) :
                      cands[i] = failedUsers[j] /\ ~validate_data_model(cands[i])

C12_Witness ==
    /\ pc = "send"
    /\ Len(generated_data_models.invites) = 2
    /\ ~HasKey(C12_Candidates[1].f, "role")
    /\ Get(generated_data_models.invites[1].f, "role") = "employee"
    /\ Get(generated_data_models.invites[2].f, "role") = "admin"

\* name and email were both resolved for the row
C13_Resolved(row) ==
    CombinedName(RowLower(row, <<>>)) # "" /\ EmailOf(RowLower(row, <<>>)) # ""

C13_Unresolved(row) == ~C13_Resolved(row)

\* C13: parse_with_heuristics puts a row's candidate in structured if and only
\* if both name and email were resolved for it; every other row is appended
\* to failed unmodified, so len(structured) + len(failed) = len(rows) and each
\* list keeps the input order.
C13_HeuristicPartition ==
    pc = "returned" =>
        LET accepted == SelectSeq(parsed_rows, C13_Resolved) IN
        /\ failed_rows = SelectSeq(parsed_rows, C13_Unresolved)
        /\ Len(structured_rows) = Len(accepted)
        /\ \A j \in 1..Len(accepted) :
              /\ structured_rows[j].kind = "obj"
              /\ HasKey(structured_rows[j].f, "name")
              /\ Get(structured_rows[j].f, "name") = CombinedName(RowLower(accepted[j], <<>>))
              /\ HasKey(structured_rows[j].f, "email")
              /\ Get(structured_rows[j].f, "email") = EmailOf(RowLower(accepted[j], <<>>))
        /\ Len(structured_rows) + Len(failed_rows) = Len(parsed_rows)

C13_Witness ==
    /\ pc = "returned" /\ Len(parsed_rows) = 2
    /\ Len(structured_rows) = 1 /\ failed_rows = <<parsed_rows[1]>>
    /\ EmailOf(RowLower(parsed_rows[1], <<>>)) # ""

\* rows with the headers firstName, lastName, email whose first and last names
\* are alphabetic and whose email is well formed
C14_WellFormedRows ==
    {r \in AllRows :
        /\ Len(r) >= 3
        /\ r[1][1] = "firstName" /\ r[2][1] = "lastName" /\ r[3][1] = "email"
        /\ \A c \in 1..3 : r[c][2] = "str"
        /\ StrIsAlpha(r[1][3]) /\ StrIsAlpha(r[2][3])
        /\ EmailMatch(r[3][3])}

\* C14: end to end, a row with headers firstName, lastName, email whose names
\* are alphabetic and whose email is well formed is, in the result handed to
\* delivery, an invite with name = first + " " + last, the same email and
\* role "employee", and no completion call was made for it.
C14_HeuristicRowBecomesInvite ==
    pc = "send" =>
        \A i \in 1..Len(parsed_rows) :
            parsed_rows[i] \in C14_WellFormedRows =>
                LET r == parsed_rows[i] IN
                /\ \E j \in 1..Len(generated_data_models.invites) :
                      generated_data_models.invites[j] =
                          Obj(<<<<"name", "str", r[1][3] \o " " \o r[2][3]>>,
                                <<"email", "str", r[3][3]>>,
                                <<"role", "str", "employee">>>>)
                /\ \A k \in 1..Len(failed_rows) : failed_rows[k] # r
                /\ \A k \in 1..Len(completions) : completions[k].row # r

C14_Witness ==
    /\ pc = "send"
    /\ Len(parsed_rows) = 2 /\ parsed_rows[2] \in C14_WellFormedRows
    /\ Len(failed_rows) = 1 /\ completions # <<>>
    /\ Last(generated_data_models.invites) =
          Obj(<<<<"name", "str", "Alice Smith">>, <<"email", "str", "alice@example.com">>,
                <<"role", "str", "employee">>>>)

\* rows the heuristics match whose candidate fails validation, and the
\* candidate of each
C15_InvalidMatched ==
    {r \in AllRows \ RejectedRows :
        ~RowLowerRaises(r) /\ ~validate_data_model(Obj(DataObj(r)))}

C15_CandidateOf == [r \in C15_InvalidMatched |-> Obj(DataObj(r))]

C15_BobRow ==
    <<<<"firstName", "str", "Bob">>, <<"lastName", "str", "">>,
      <<"email", "str", "bob@example">>>>

\* C15: a heuristically matched candidate that fails validation is routed to
\* failedUsers with no further attempts: its row is not passed to the AI
\* fallback and no completion call is made for it; the row Bob, "",
\* bob@example yields the candidate (name Bob, email bob@example) in
\* failedUsers.
C15_InvalidCandidateNotRetried ==
    /\ \A k \in 1..Len(completions) : completions[k].row \notin C15_InvalidMatched
    /\ \A k \in 1..Len(failed_rows) : failed_rows[k] \notin C15_InvalidMatched
    /\ pc = "send" =>
          \A i \in 1..Len(parsed_rows) :
              /\ parsed_rows[i] \in C15_InvalidMatched =>
                    \E j \in 1..Len(generated_data_models.failedUsers) :
                        generated_data_models.failedUsers[j] = C15_CandidateOf[parsed_rows[i]]
              /\ parsed_rows[i] = C15_BobRow =>
                    \E j \in 1..Len(generated_data_models.failedUsers) :
                        generated_data_models.failedUsers[j] =
                            Obj(<<<<"name", "str", "Bob">>, <<"email", "str", "bob@example">>>>)

C15_Witness ==
    /\ pc = "send"
    /\ Len(parsed_rows) = 2 /\ parsed_rows[1] = C15_BobRow
    /\ Len(failed_rows) = 1 /\ completions # <<>>
    /\ Len(generated_data_models.invites) = 1
    /\ generated_data_models.failedUsers =
          <<Obj(<<<<"name", "str", "Bob">>, <<"email", "str", "bob@example">>>>)>>

\* the candidate parse_with_heuristics builds for each row it accepts
CandidateOf == [r \in {q \in AllRows \ RejectedRows : ~RowLowerRaises(q)} |-> Obj(DataObj(r))]

C16_Matched(row) == row \notin RejectedRows
C16_Valid(dm) == validate_data_model(dm)
C16_Invalid(dm) == ~validate_data_model(dm)

\* the candidates of the rows of the batch the heuristics structure, in order
C16_HeuristicCandidates ==
    LET rows == SelectSeq(parsed_rows, C16_Matched)
    IN  [k \in 1..Len(rows) |-> CandidateOf[rows[k]]]

\* heuristics structure some rows and reject one, and the completion API
\* returned a JSON record that passes validation for the rejected row
C16_Case ==
    /\ pc = "send"
    /\ Cardinality({i \in 1..Len(parsed_rows) : parsed_rows[i] \in RejectedRows}) = 1
    /\ Len(parsed_rows) >= 2
    /\ gpt_result = <<"json">>
    /\ validate_data_model(ai_parsed_rows[1])

\* C16: when heuristics structure some rows of a batch and reject one row, and
\* the completion API returns a valid record as JSON for the rejected row, the
\* invites are the validated heuristic candidates followed by exactly one
\* more invite, the AI record, and every heuristically structured row appears
\* exactly once in invites or failedUsers.
C16_OneNewInvite ==
    C16_Case =>
        LET invites == generated_data_models.invites
            failedUsers == generated_data_models.failedUsers
            valid == SelectSeq(C16_HeuristicCandidates, C16_Valid)
            ai == ai_parsed_rows[1]
        IN  /\ Len(invites) = Len(valid) + 1
            /\ \A j \in 1..Len(valid) :
                   invites[j] = Obj(Append(valid[j].f, <<"role", "str", "employee">>))
            /\ Last(invites).f = IF HasKey(ai.f, "role") /\ Get(ai.f, "role") # ""
                                 THEN ai.f
                                 ELSE DictSet(ai.f, "role", "str", "employee")
            /\ failedUsers = SelectSeq(C16_HeuristicCandidates, C16_Invalid)
            /\ Len(invites) + Len(failedUsers) = Len(C16_HeuristicCandidates) + 1

C16_Witness ==
    /\ C16_Case
    /\ Len(generated_data_models.invites) = 2
    /\ Get(generated_data_models.invites[1].f, "name") = "Alice Smith"
    /\ Get(generated_data_models.invites[2].f, "email") = "charlie@example.com"
    /\ generated_data_models.failedUsers = <<>>

\* the four rules, for the data_model passed to validate_data_model
C17_Rules ==
    LET dm == structured_rows[1] IN
    /\ dm.kind = "obj"
    /\ HasKey(dm.f, "name") /\ HasKey(dm.f, "email")
    /\ GetTag(dm.f, "email") = "str" /\ EmailMatch(Get(dm.f, "email"))
    /\ GetTag(dm.f, "name") = "str"
    /\ LET name == Get(dm.f, "name") IN
       /\ \E i \in 1..Len(name) : ~IsSpace(Char(name, i))
       /\ \A i \in 1..Len(name) : IsAlphaChar(Char(name, i)) \/ IsSpace(Char(name, i))

\* C17: validate_data_model returns True exactly when all four rules hold:
\* name and email are both present, email matches the address pattern, name
\* is not blank, and every whitespace-separated token of name is purely
\* alphabetic; it returns False when any rule fails (missing email, email
\* with two @, name containing a digit).
C17_ValidateRules ==
    pc = "returned" =>
        /\ ret \in {"True", "False"}
        /\ ret = "True" <=> C17_Rules
        /\ structured_rows[1] \in
               {Obj(<<<<"name", "str", "Bob">>>>),
                Obj(<<<<"name", "str", "Alice Smith">>, <<"email", "str", "charlie@invalid@.com">>>>),
                Obj(<<<<"name", "str", "Dave123">>, <<"email", "str", "alice@example.com">>>>)}
              => ret = "False"

C17_Witness ==
    /\ pc = "returned" /\ ret = "False"
    /\ structured_rows = <<Obj(<<<<"name", "str", " ">>, <<"email", "str", "alice@example.com">>>>)>>

\* what parse_with_heuristics returns for each row taken alone
C18_Alone ==
    [r \in {q \in HeuristicRows : ~RowLowerRaises(q)} |-> parse_with_heuristics(<<r>>)]

\* the rows' results alone, concatenated in the order of the rows
RECURSIVE C18_Concat(_)
C18_Concat(rows) ==
    IF rows = <<>> THEN <<<<>>, <<>>>>
    ELSE LET rest == C18_Concat(Tail(rows))
         IN  <<C18_Alone[Head(rows)][1] \o rest[1], C18_Alone[Head(rows)][2] \o rest[2]>>

\* C18: heuristic extraction is order-independent: in the batch as given and
\* in every permutation of its rows, each row gets the classification
\* (structured or failed) and the candidate record it gets alone, whatever
\* rows come before it; a batch that makes the extraction raise does so in
\* every order.
C18_OrderIndependent ==
    LET n == Len(parsed_rows) IN
    /\ pc = "returned" =>
          /\ <<structured_rows, failed_rows>> = C18_Concat(parsed_rows)
          /\ \A p \in Permutations(1..n) :
                LET permuted == [i \in 1..n |-> parsed_rows[p[i]]]
                IN  /\ ~HeuristicsRaises(permuted)
                    /\ parse_with_heuristics(permuted) = C18_Concat(permuted)
    /\ (pc = "raised" /\ ret = "AttributeError") =>
          \A p \in Permutations(1..n) :
              HeuristicsRaises([i \in 1..n |-> parsed_rows[p[i]]])

C18_Witness ==
    /\ pc = "returned" /\ Len(parsed_rows) = 2
    /\ Len(structured_rows) = 1 /\ failed_rows = <<parsed_rows[2]>>
    /\ CombinedName(RowLower(parsed_rows[2], <<>>)) # ""

\* what a run on a text delivers when the heuristics structure every row
C19_ResultOf ==
    [t \in CsvTexts |->
        LET parts == Partition(HeuristicsOf[t][1])
        IN  [invites |-> parts[1], failedUsers |-> parts[2]]]

\* a run on a batch in which every row is structured by heuristics
C19_HeuristicsOnly ==
    /\ pc = "send"
    /\ failed_rows = <<>> /\ completions = <<>> /\ gpt_result = <<>>

\* C19: every run of the pipeline on the same batch in which the heuristics
\* structure every row hands the same result to delivery: the invites and
\* failedUsers are determined by the text of the batch alone, whatever the
\* handler processed before it.
C19_SameResultEveryRun ==
    C19_HeuristicsOnly => generated_data_models = C19_ResultOf[msg.data[2]]

C19_Witness ==
    /\ C19_HeuristicsOnly
    /\ nRecords = 2 /\ idx = 2 /\ sendCalls[1] = 1 /\ postResult[1] = "ok"
    /\ Len(generated_data_models.invites) = 1
    /\ Len(generated_data_models.failedUsers) = 1

\* headers matching first / last, or the synonyms f_name / surname
C20_FirstHeader(k) == StrContains("first", k) \/ k = "f_name"
C20_LastHeader(k) == StrContains("last", k) \/ k = "surname"

\* the value under the header h(_) selects, "" when there is none; cells is the
\* row as <<normalised header, tag, value>> items
C20_FirstOf(cells) ==
    IF \E i \in 1..Len(cells) : C20_FirstHeader(cells[i][1])
    THEN cells[CHOOSE i \in 1..Len(cells) : C20_FirstHeader(cells[i][1])][3]
    ELSE ""

C20_LastOf(cells) ==
    IF \E i \in 1..Len(cells) : C20_LastHeader(cells[i][1])
    THEN cells[CHOOSE i \in 1..Len(cells) : C20_LastHeader(cells[i][1])][3]
    ELSE ""

\* the priority of the claim applied to cells
C20_Priority(cells) ==
    LET first == C20_FirstOf(cells)
        last == C20_LastOf(cells)
    IN  IF StrStrip(first) # "" \/ StrStrip(last) # ""
        THEN StrStrip(first \o " " \o last)
        ELSE IF HasKey(cells, "name") THEN Get(cells, "name") ELSE ""

\* the non-empty cells of a row under their normalised headers: as they are
\* in the row, and with the surrounding whitespace of each value removed
C20_RawCells(row) ==
    LET kept == SelectSeq(row, LAMBDA it : it[2] = "str" /\ it[3] # "")
    IN  [i \in 1..Len(kept) |-> <<StrStrip(StrLower(kept[i][1])), "str", kept[i][3]>>]

C20_TrimmedCells(row) ==
    LET kept == SelectSeq(row, LAMBDA it : it[2] = "str" /\ it[3] # "")
    IN  [i \in 1..Len(kept) |->
            <<StrStrip(StrLower(kept[i][1])), "str", StrStrip(kept[i][3])>>]

C20_RawName == [r \in {q \in HeuristicRows : ~RowLowerRaises(q)} |->
                   C20_Priority(C20_RawCells(r))]

C20_TrimmedName == [r \in {q \in HeuristicRows : ~RowLowerRaises(q)} |->
                       C20_Priority(C20_TrimmedCells(r))]

C20_HasEmail == {r \in HeuristicRows : ~RowLowerRaises(r) /\ EmailOf(RowLower(r, <<>>)) # ""}

C20_RawAccepted(row) == row \in C20_HasEmail /\ C20_RawName[row] # ""
C20_TrimmedAccepted(row) == row \in C20_HasEmail /\ C20_TrimmedName[row] # ""

\* C20 as stated: the name of a candidate follows the priority applied to the
\* cell values of the row: first and last (or f_name, surname) combined as
\* "first last" and trimmed; a standalone name header only when no first or
\* last part was resolved, and then taken verbatim; a first name alone when
\* there is only a first name.
C20_NameVerbatim ==
    pc = "returned" =>
        LET accepted == SelectSeq(parsed_rows, C20_RawAccepted) IN
        /\ Len(structured_rows) = Len(accepted)
        /\ \A j \in 1..Len(accepted) :
              Get(structured_rows[j].f, "name") = C20_RawName[accepted[j]]

\* C20 as amended: every cell value first has its surrounding whitespace
\* removed; the name of a candidate then follows the priority applied to the
\* trimmed values: first and last (or f_name, surname) combined as
\* "first last" and trimmed; a standalone name header only when no first or
\* last part was resolved, its trimmed value taken unchanged; a first name
\* alone when there is only a first name.
C20_NamePriority ==
    pc = "returned" =>
        LET accepted == SelectSeq(parsed_rows, C20_TrimmedAccepted) IN
        /\ Len(structured_rows) = Len(accepted)
        /\ \A j \in 1..Len(accepted) :
              Get(structured_rows[j].f, "name") = C20_TrimmedName[accepted[j]]

C20_Witness ==
    /\ pc = "returned" /\ Len(structured_rows) = 2
    /\ parsed_rows[1] = <<<<"f_name", "str", "Eve">>, <<"surname", "str", "Adams">>,
                           <<"mail", "str", "eve@x.io">>>>
    /\ parsed_rows[2] = <<<<"Name", "str", " Cher ">>, <<"email", "str", "cher@x.io">>>>
    /\ Get(structured_rows[1].f, "name") = "Eve Adams"
    /\ Get(structured_rows[2].f, "name") = "Cher"

\* a normalised header that equals a known alias or contains "email"
C21_Matches(k) == k \in {"email", "mail", "email_address"} \/ StrContains("email", k)

\* index of the first cell, in column order, whose header matches; 0 if none
C21_FirstMatch(cells) ==
    IF \E i \in 1..Len(cells) : C21_Matches(cells[i][1])
    THEN CHOOSE i \in 1..Len(cells) :
             /\ C21_Matches(cells[i][1])
             /\ \A j \in 1..(i - 1) : ~C21_Matches(cells[j][1])
    ELSE 0

\* the value of the first matching header
C21_FirstValue(cells) ==
    IF C21_FirstMatch(cells) = 0 THEN "" ELSE cells[C21_FirstMatch(cells)][3]

\* the value of the last column that has the name of the first matching header
C21_LastSameName(cells) ==
    IF C21_FirstMatch(cells) = 0 THEN ""
    ELSE LET h == cells[C21_FirstMatch(cells)][1]
         IN  cells[CHOOSE i \in 1..Len(cells) :
                       /\ cells[i][1] = h
                       /\ \A j \in (i + 1)..Len(cells) : cells[j][1] # h][3]

C21_Returning == {q \in HeuristicRows : ~RowLowerRaises(q)}

C21_FirstEmail == [r \in C21_Returning |-> C21_FirstValue(C20_TrimmedCells(r))]
C21_Email == [r \in C21_Returning |-> C21_LastSameName(C20_TrimmedCells(r))]

C21_FirstAccepted(row) == C20_TrimmedName[row] # "" /\ C21_FirstEmail[row] # ""
C21_Accepted(row) == C20_TrimmedName[row] # "" /\ C21_Email[row] # ""

C22_Email ==
    LET dm == structured_rows[1] IN
    IF dm.kind = "obj" /\ HasKey(dm.f, "email") /\ GetTag(dm.f, "email") = "str"
    THEN Get(dm.f, "email") ELSE ""

\* positions of the @ signs of s, and of its dots after position a
C22_Ats(s) == {i \in 1..Len(s) : Char(s, i) = "@"}
C22_DotsAfter(s, a) == {i \in (a + 1)..Len(s) : Char(s, i) = "."}
C22_Max(S) == CHOOSE m \in S : \A x \in S : x <= m

\* s has a non-empty local part, exactly one @, a dot in the domain and a
\* non-empty last label made of characters of the set T
C22_Shape(s, T) ==
    /\ Cardinality(C22_Ats(s)) = 1
    /\ LET a == C22_Max(C22_Ats(s)) IN
       /\ a > 1
       /\ \A i \in 1..(a - 1) : IsAddrChar(Char(s, i))
       /\ C22_DotsAfter(s, a) # {}
       /\ LET d == C22_Max(C22_DotsAfter(s, a)) IN
          /\ d > a + 1
          /\ \A i \in (a + 1)..(d - 1) : IsAddrChar(Char(s, i))
          /\ d < Len(s)
          /\ \A i \in (d + 1)..Len(s) : Char(s, i) \in T

\* the last label of s, after its last dot, contains a letter
C22_LastLabelHasLetter(s) ==
    /\ C22_Ats(s) # {}
    /\ C22_DotsAfter(s, C22_Max(C22_Ats(s))) # {}
    /\ \E i \in (C22_Max(C22_DotsAfter(s, C22_Max(C22_Ats(s)))) + 1)..Len(s) :
           IsAlphaChar(Char(s, i))

\* C22: validate_data_model accepts an email only if it has a local part, one
\* @, domain labels and a dot followed by a top-level label that contains at
\* least one letter.
C22_TopLabelHasLetter ==
    (pc = "returned" /\ ret = "True") => C22_LastLabelHasLetter(C22_Email)

\* what EMAIL_REGEX enforces: validate_data_model accepts an email only if it
\* has a non-empty local part, exactly one @, and a domain with a dot followed by a
\* non-empty last label of word characters (letters, digits, underscores),
\* one trailing newline being ignored; every email without a dot in the
\* domain is rejected, and with a valid name every email of that shape is
\* accepted, a last label of digits or underscores included.
EmailRegexShape ==
    pc = "returned" =>
        LET e == C22_Email
            shape == \/ C22_Shape(e, WordSet)
                     \/ /\ e # "" /\ Char(e, Len(e)) = "\n"
                        /\ C22_Shape(SubSeq(e, 1, Len(e) - 1), WordSet)
        IN  /\ ret = "True" => shape
            /\ (C22_Ats(e) = {} \/ C22_DotsAfter(e, C22_Max(C22_Ats(e))) = {}) => ret = "False"
            /\ (/\ shape
                /\ HasKey(structured_rows[1].f, "name")
                /\ Get(structured_rows[1].f, "name") = "Bob") => ret = "True"

C22_Witness ==
    /\ pc = "returned" /\ ret = "True"
    /\ structured_rows = <<Obj(<<<<"name", "str", "Bob">>, <<"email", "str", "a@b.12">>>>)>>

\* the latest generate_data_model_from_gpt ended on its third provider error
C23_BudgetExhausted ==
    GptEnded /\ Len(completions) = 3 /\ Last(completions).kind = "error"

\* C23 as stated: after the third failed call generate_data_model_from_gpt
\* fails with the error kind it uses for an unparseable response (ValueError),
\* not with the provider's own exception.
C23_ExhaustionIsValueError ==
    C23_BudgetExhausted => Last(gpt_result) = "ValueError"

\* C23 as amended: after the third failed call generate_data_model_from_gpt
\* re-raises the provider's own exception, not the ValueError it raises for
\* an unparseable response; parse_with_ai_fallback catches it like the
\* ValueError and the row goes to still_failed.
C23_ProviderErrorReraised ==
    /\ C23_BudgetExhausted =>
          /\ Last(gpt_result) = "ProviderError"
          /\ Last(still_failed_rows) = completions[1].row
          /\ ret # "ProviderError"
    /\ \A k \in 1..Len(gpt_result) :
          gpt_result[k] \in {"ValueError", "ProviderError"} =>
              \E j \in 1..Len(still_failed_rows) : still_failed_rows[j] = failed_rows[k]

C23_Witness ==
    /\ pc = "validate" /\ C23_BudgetExhausted
    /\ gpt_result = <<"ValueError", "ProviderError">>
    /\ Len(still_failed_rows) = 2

\* C24: a completion response that is well-formed JSON but is not a JSON
\* object, or is an object lacking name or email, is not retried and makes
\* the AI resolution of the row fail, so the row goes to still_failed and the
\* response never becomes a candidate record.
C24_SchemaViolationFails ==
    /\ \A j \in 1..Len(ai_parsed_rows) :
          /\ ai_parsed_rows[j].kind = "obj"
          /\ HasKey(ai_parsed_rows[j].f, "name") /\ HasKey(ai_parsed_rows[j].f, "email")
    /\ pc \in {"validate", "send"} =>
          \A j \in 1..Len(structured_rows) :
              /\ structured_rows[j].kind = "obj"
              /\ HasKey(structured_rows[j].f, "name") /\ HasKey(structured_rows[j].f, "email")

\* C25: validation failures are isolated per row: validate_data_model never
\* raises for a candidate an extractor hands it, so a batch that reached
\* validation is never ended by an exception of the validator, and a
\* candidate that is not a JSON object is routed to failedUsers.
C25_ValidationIsolated ==
    /\ ~(pc = "raised" /\ ret = "TypeError")
    /\ pc = "send" =>
          \A j \in 1..Len(ai_parsed_rows) :
              ai_parsed_rows[j].kind = "num" =>
                  \E k \in 1..Len(generated_data_models.failedUsers) :
                      generated_data_models.failedUsers[k] = ai_parsed_rows[j]

\* C26: a batch runs its stages in the order session check, heuristics for
\* all rows, AI fallback for the rows the heuristics rejected, validation of
\* all candidates, delivery, and no stage starts before the previous one
\* finished; a row is attempted by the AI only after the heuristics rejected
\* it, only heuristic candidates and AI results are validated, and validated
\* candidates end in invites and invalid ones in failedUsers.
C26_StageSteps ==
    {<<"loop", "gate">>, <<"gate", "loop">>, <<"gate", "raised">>, <<"gate", "ai">>,
     <<"gate", "validate">>, <<"ai", "ai">>, <<"ai", "validate">>,
     <<"validate", "send">>, <<"validate", "raised">>, <<"send", "loop">>,
     <<"loop", "done">>}
C26_HeuristicsFinished ==
    /\ Len(structured_rows') + Len(failed_rows') = Len(parsed_rows')
    /\ completions' = <<>> /\ gpt_result' = <<>>
    /\ validated_rows' = <<>> /\ invalid_rows' = <<>>
C26_FallbackFinished ==
    /\ Len(gpt_result') = Len(failed_rows')
    /\ Len(ai_parsed_rows') + Len(still_failed_rows') = Len(failed_rows')
    /\ Len(structured_rows') + Len(still_failed_rows') = Len(parsed_rows')
    /\ \A j \in 1..Len(ai_parsed_rows') :
          structured_rows'[Len(structured_rows') - Len(ai_parsed_rows') + j] = ai_parsed_rows'[j]
    /\ validated_rows' = <<>> /\ invalid_rows' = <<>>
C26_ValidationFinished ==
    /\ Len(validated_rows') + Len(invalid_rows') = Len(structured_rows')
    /\ generated_data_models'.invites = validated_rows'
    /\ generated_data_models'.failedUsers = invalid_rows'
    /\ sendCalls'[idx] = 0
C26_Step ==
    /\ <<pc, pc'>> \in C26_StageSteps
    /\ (pc = "gate" /\ pc' \in {"ai", "validate"}) => C26_HeuristicsFinished
    /\ (pc = "gate" /\ pc' = "validate") => failed_rows' = <<>>
    /\ pc' = "ai" => Len(gpt_result') < Len(failed_rows')
    /\ completions' # completions /\ completions' # <<>> =>
          /\ pc = "ai"
          /\ Last(completions').row = failed_rows[Len(gpt_result) + 1]
    /\ pc' = "validate" => C26_FallbackFinished
    /\ pc' = "send" => C26_ValidationFinished
    /\ sendCalls' # sendCalls => pc = "send" /\ sendCalls'[idx] = 1
C27_OwnResult ==
    pc = "send" =>
        /\ Len(gpt_result) = Len(HeuristicsOf[msg.data[2]][2])
        /\ Len(ai_parsed_rows) = JsonCount
        /\ LET parts == Partition(HeuristicsOf[msg.data[2]][1] \o ai_parsed_rows)
           IN  generated_data_models = [invites |-> parts[1], failedUsers |-> parts[2]]
\* only the switch touches the frame of the invocation that is not running,
\* and it keeps both frames as they are
C27_Frame ==
    suspended' # suspended => suspended' = Invocation /\ Invocation' = suspended
\* C27: batches do not interfere: processed one after another in one
\* invocation or by interleaved invocations, the result handed to delivery
\* for a batch is determined by the batch's own message and AI responses, a
\* step of one invocation leaves the frame of the other untouched, and no
\* row or candidate of another batch appears in its invites or failedUsers.
C27_NoInterference == []C27_OwnResult /\ [][C27_Frame]_vars
C27_Witness ==
    /\ suspended # NoInvocation
    /\ idx = 2 /\ pc = "send" /\ sendCalls[1] = 1
    /\ Len(generated_data_models.failedUsers) = 1
    /\ suspended.pc = "ai" /\ suspended.completions # <<>>
    /\ suspended.msg.data # msg.data

\* the handler was left by the ValueError of a record without data: the
\* record and every record after it were neither extracted nor delivered
C28_AfterStructuralError ==
    (pc = "raised" /\ ret = "ValueError") =>
        /\ NoCsvContent(msg.data)
        /\ outcome[idx] = "pending" /\ sendCalls[idx] = 0 /\ postCalls[idx] = 0
        /\ \A i \in (idx + 1)..nRecords :
              outcome[i] = "pending" /\ sendCalls[i] = 0 /\ postCalls[i] = 0
        /\ \A i \in 1..(idx - 1) :
              outcome[i] = "extracted" => sendCalls[i] = 1 /\ postResult[i] # "none"
C28_ErrorStep ==
    /\ (/\ pc = "gate" /\ SessionActive(table[msg.connectionId])
        /\ NoCsvContent(msg.data) /\ outcome'[idx] # "lookup_error") =>
           pc' = "raised" /\ ret' = "ValueError"
    /\ pc # "raised"
    /\ \A i \in 1..nRecords : sendCalls'[i] >= sendCalls[i]
\* C28: a record with missing or empty data makes ValueError leave
\* lambda_handler: no later step runs, so the records after it are never
\* session-checked, extracted or delivered and statusCode 200 is not
\* returned, while the deliveries made for earlier records stay made.
C28_StructuralErrorAborts == []C28_AfterStructuralError /\ [][C28_ErrorStep]_vars
C28_Witness ==
    /\ nRecords = 2 /\ idx = 1 /\ pc = "raised" /\ ret = "ValueError"
    /\ outcome[2] = "pending" /\ sendCalls[2] = 0
C28_WitnessEarlierDelivery ==
    /\ nRecords = 2 /\ idx = 2 /\ pc = "raised" /\ ret = "ValueError"
    /\ sendCalls[1] = 1 /\ postResult[1] = "ok"

\* the running invocation is past the gate of a batch whose session the
\* gateway has marked disconnected since the gate read it
C29_DisconnectedAfterRead ==
    /\ outcome[idx] = "extracted"
    /\ table[msg.connectionId] = "disconnected"
\* C29: the session status is read once, at the gate, and never written by
\* the pipeline; when the gateway marks the connection disconnected after
\* that read the batch is still fully extracted and delivery is still
\* attempted exactly once.
C29_DeliveredDespiteDisconnect ==
    /\ (pc = "raised" /\ idx <= nRecords /\ C29_DisconnectedAfterRead) =>
          sendCalls[idx] = 1
    /\ \A i \in 1..nRecords :
          (outcome[i] = "extracted" /\ (idx > i \/ pc = "done")) => sendCalls[i] = 1

\* what holds of the session store: only the gateway writes it, and a step
\* of the pipeline past the gate is taken whatever the status has become,
\* the delivery step included
C29_ReadOnceNeverWritten ==
    [][/\ table' # table => Invocation' = Invocation /\ suspended' = suspended
       /\ (pc = "send" /\ idx <= nRecords /\ C29_DisconnectedAfterRead
             /\ Invocation' # Invocation /\ suspended' = suspended) =>
               sendCalls'[idx] = 1 /\ postCalls'[idx] = 1 /\ pc' = "loop"]_vars

\* a batch whose lookup failed is never delivered and never ends the handler
C30_Skipped ==
    /\ \A i \in 1..nRecords :
          outcome[i] = "lookup_error" =>
              sendCalls[i] = 0 /\ postCalls[i] = 0 /\ postResult[i] = "none" /\ idx > i
    /\ pc = "done" => ret = "200"
\* the step in which get_item raises ClientError goes from the gate straight
\* to the next record, and the loop that ran out of records returns 200
C30_LookupStep ==
    /\ outcome' # outcome /\ outcome'[idx] = "lookup_error" =>
          /\ pc = "gate" /\ pc' = "loop" /\ idx' = idx + 1 /\ ret' = ret
          /\ parsed_rows' = <<>> /\ structured_rows' = <<>> /\ completions' = <<>>
          /\ generated_data_models' = NoModels
          /\ UNCHANGED <<sendCalls, postCalls, postResult>>
    /\ (pc = "loop" /\ idx > nRecords) => pc' = "done" /\ ret' = "200"
\* C30: when the session-store lookup fails with ClientError the batch is
\* skipped with no extraction, completion call or delivery, the error stays
\* inside lambda_handler, the next record is processed, and the handler
\* returns statusCode 200 when the loop ends.
C30_LookupErrorSkipsBatch == []C30_Skipped /\ [][C30_LookupStep]_vars
C30_Witness ==
    /\ nRecords = 2 /\ pc = "done" /\ ret = "200"
    /\ outcome[1] = "lookup_error" /\ outcome[2] = "extracted"
    /\ sendCalls[2] = 1

====
